---- MODULE Spec2Model ----
(***************************************************************************)
(* Message dispatch of the redstone-computer-utilities client: one         *)
(* connection, the host's events and the client's API requests/results on  *)
(* one ordered channel.  The single control flow of Script::run is kept as *)
(* an explicit stack of activations (main_loop, handle_event,              *)
(* send_api_request, and the user's on_init / on_execute callbacks).       *)
(***************************************************************************)
EXTENDS Integers, Sequences, FiniteSets, TLC

\* ------------------------------------------------------------------ bounds
\* inbound frames the host delivers in one session
MaxFrames == 4
\* API requests one callback invocation issues
MaxReq == 1

\* ------------------------------------------------------------- data types
\* datatype.rs: ErrorCode, a closed set of negative integers
GeneralError == -1
ChunkUnloaded == -7
InternalError == -6
ErrorCode == ChunkUnloaded .. GeneralError

\* impl From<Error> for ErrorCode: every Error becomes InternalError
ErrorToErrorCode(e) == InternalError

\* lib.rs: enum Error (the variants a session can end with)
Error ==
  {"WebsocketError", "UnexpectedApiResult", "InvalidServerMessage",
   "UnexpectedDisconnect", "InitializeFailed", "SerializeFailed", "ErrorCode"}

\* datatype.rs: the tags of enum Event (serde tag = "event", camelCase)
EventTags ==
  {"scriptInitialize", "scriptRun", "interfaceChange", "blockUpdate", "alarm"}

\* A JSON value of a "result" field: an object with some keys, or a number.
JObject(keys) == [ty |-> "object", keys |-> keys, n |-> 0]
JNumber(n) == [ty |-> "number", keys |-> {}, n |-> n]
Absent == [ty |-> "absent", keys |-> {}, n |-> 0]

\* A text frame, as the JSON object it carries: the value of its "event"
\* field ("" when it has none), whether the fields that event's variant
\* requires are present and well typed, and the value of its "result" field.
Text(event, fields, result) ==
  [k |-> "text", event |-> event, fields |-> fields, result |-> result]

\* The text frames the host sends in the model.
Texts ==
  {Text(e, TRUE, Absent) : e \in EventTags} \cup
  {Text("", TRUE, JObject({"gametime"})), Text("", TRUE, JNumber(-3))} \cup
  {Text("scriptRun", FALSE, Absent)}

Other(k) == [k |-> k, event |-> "", fields |-> TRUE, result |-> Absent]

\* What one poll of the channel can produce: a text frame, a binary frame,
\* a close frame, a control frame, the end of the stream, a transport fault,
\* or the interrupt signal winning the select!.
Polls ==
  Texts \cup {Other(k) : k \in {"binary", "close", "ping", "eof", "fault", "ctrl_c"}}

\* serde_json::from_str::<Event>: the tag must name a variant and the
\* variant's fields must be there (ScriptInitialize {} has none).
ParseEvent(t) ==
  IF t.event \in EventTags /\ (t.fields \/ t.event = "scriptInitialize")
  THEN [ok |-> TRUE, evt |-> t.event]
  ELSE [ok |-> FALSE, evt |-> ""]

\* serde_json::from_str::<ApiResultWrapper>: needs a "result" field; the
\* untagged enum ApiResult tries Ok(serde_json::Value) first, and a Value
\* accepts every JSON value, so the Err(ErrorCode) variant is never chosen.
ParseApiResult(t) ==
  IF t.result.ty = "absent"
  THEN [ok |-> FALSE, variant |-> "", value |-> Absent]
  ELSE [ok |-> TRUE, variant |-> "Ok", value |-> t.result]

\* ApiResult::into_result
into_result(res) ==
  IF res.variant = "Ok" THEN [ok |-> TRUE, value |-> res.value, err |-> "Ok"]
  ELSE [ok |-> FALSE, value |-> res.value, err |-> "ErrorCode"]

\* serde_json::from_value::<T> for the result types of the requests
from_value(T, v) ==
  CASE T = "Value" -> TRUE
    [] T = "QueryGametimeResult" -> v.ty = "object" /\ "gametime" \in v.keys
    [] OTHER -> FALSE

\* The result type each convenience call asks send_api_request for.
ResultType(api) ==
  IF api \in {"subscribe", "writeInterface", "log"} THEN "Value"
  ELSE IF api = "queryGametime" THEN "QueryGametimeResult"
  ELSE "Other"

\* The requests a callback issues in the model: one whose result is
\* discarded (log) and one whose result is deserialized (queryGametime).
CallbackApis == {"log", "queryGametime"}

\* The ErrorCodes and results a callback returns in the model.
CallbackCodes == {GeneralError} \cup {ErrorToErrorCode(e) : e \in Error}
CallbackResults == {1}

\* ------------------------------------------------------------------ state
VARIABLES
  stack,        \* the activations of the one control flow, innermost last
  on_init,      \* Script.on_init is Some
  on_execute,   \* Script.on_execute is Some
  ws,           \* the channel: "open" or "closed"
  status,       \* "running", or what Script::run returned
  log           \* what happened on the connection, in order

vars == <<stack, on_init, on_execute, ws, status, log>>

\* One activation.  fn: the function; evt/id: the event a handle_event (or a
\* callback called by it) works on; api/id: the request of a
\* send_api_request; n: the requests a callback has issued; last: what the
\* callback's last request returned.
Frame(fn, pc, evt, id, api) ==
  [fn |-> fn, pc |-> pc, evt |-> evt, id |-> id, api |-> api, n |-> 0, last |-> ""]

\* A log entry [t, a, id, v]:
\*   "in"        a poll: a the frame polled, id the number an ApiResult
\*               frame carries as its payload (0 when it carries none),
\*               v the requests awaiting a result
\*   "event"     an event is dispatched: a its kind, id its arrival number
\*   "request"   a request frame is sent: a the api, id its number, v the
\*               event whose handling issued it
\*   "result"    an ApiResult is taken by the request id: v is 1 when
\*               the call returns Ok, 0 when it returns SerializeFailed,
\*               the ErrorCode when it returns Err(ErrorCode)
\*   "call"      a callback is invoked for event id
\*   "return_ok", "return_err"   the callback a returns v for event id
\*   "response"  an EventResponse is sent for event id: a its variant
\*               ("Ok", "ScriptRun", "Err"), v the result or the ErrorCode
\*   "close"     the close frame of Script::run
Entry(t, a, id, v) == [t |-> t, a |-> a, id |-> id, v |-> v]

Top(s) == s[Len(s)]
Pop(s) == SubSeq(s, 1, Len(s) - 1)
SetTop(s, f) == [s EXCEPT ![Len(s)] = f]

Count(t) == Cardinality({i \in 1 .. Len(log) : log[i].t = t})

\* The send_api_request activations: requests sent and awaiting a result.
Pending == {i \in 1 .. Len(stack) : stack[i].fn = "send_api_request"}

\* The frame a poll delivered, as the log names it.
FrameName(m) ==
  IF m.k # "text" THEN m.k
  ELSE IF m.result.ty # "absent" THEN "result"
  ELSE IF m.fields THEN m.event
  ELSE "malformed"

Polled(m) == Entry("in", FrameName(m), m.result.n, Cardinality(Pending))

\* Script::default / on_init / on_execute / run: a session starts in
\* main_loop with either callback registered or not.
Init ==
  /\ stack = <<Frame("main_loop", "read", "", 0, "")>>
  /\ on_init \in BOOLEAN
  /\ on_execute \in BOOLEAN
  /\ ws = "open"
  /\ status = "running"
  /\ log = <<>>


\* --------------------------------------------------------------- transport
\* Context::try_next_message: what one poll gives the caller.  A control
\* frame is absorbed and the loop polls again ("again").
Outcome(r, e, evt, res) == [r |-> r, e |-> e, evt |-> evt, res |-> res]
NoRes == ParseApiResult(Other("none"))

try_next_message(m) ==
  CASE m.k = "text" -> Outcome("text", "", "", NoRes)
    [] m.k = "binary" -> Outcome("err", "InvalidServerMessage", "", NoRes)
    [] m.k = "fault" -> Outcome("err", "WebsocketError", "", NoRes)
    [] m.k \in {"close", "eof", "ctrl_c"} -> Outcome("none", "", "", NoRes)
    [] OTHER -> Outcome("again", "", "", NoRes)

\* Context::try_next_event_or_api_result: Event first, then ApiResult.
try_next_event_or_api_result(m) ==
  LET x == try_next_message(m) IN
  IF x.r # "text" THEN x
  ELSE IF ParseEvent(m).ok THEN Outcome("event", "", ParseEvent(m).evt, NoRes)
  ELSE IF ParseApiResult(m).ok THEN Outcome("result", "", "", ParseApiResult(m))
  ELSE Outcome("err", "InvalidServerMessage", "", NoRes)

\* try_next_event with its ApiResult arm lost: the result is passed on like
\* a control frame and the loop polls again.
try_next_event_DropsResult(m) ==
  LET x == try_next_event_or_api_result(m) IN
  IF x.r = "result" THEN Outcome("again", "", "", NoRes) ELSE x

\* Context::try_next_event: an ApiResult here is UnexpectedApiResult.
try_next_event(m) ==
  LET x == try_next_event_or_api_result(m) IN
  IF x.r = "result" THEN Outcome("err", "UnexpectedApiResult", "", NoRes) ELSE x

\* The channel after a poll: a close frame, the end of the stream and a
\* transport fault leave it closed; the interrupt leaves it as it is.
WsAfter(m) == IF m.k \in {"close", "eof", "fault"} THEN "closed" ELSE ws

\* What the channel can still deliver: a closed channel only its end (an
\* open channel that ends is polled like one that delivers a close frame).
CanPoll(m) ==
  /\ status = "running"
  /\ Count("in") < MaxFrames
  /\ (ws = "closed") = (m.k = "eof")

\* Context::send: writing to a closed channel is a WebsocketError.
SendOk == ws = "open"

\* An Err travelling up through the `?` of every caller: send_api_request,
\* handle_event (awaiting subscribe_run) and main_loop pass it on; a callback
\* receives it as the Err of the request it awaited.  s is the stack below
\* the activation that returned the Err.
RECURSIVE Raise(_, _)
Raise(s, e) ==
  IF s = <<>> THEN s
  ELSE IF Top(s).fn \in {"on_init", "on_execute"}
       THEN SetTop(s, [Top(s) EXCEPT !.last = e])
       ELSE Raise(Pop(s), e)

\* Script::run after main_loop returned Err: `?` returns it at once.
Fail(s, e) ==
  /\ stack' = Raise(s, e)
  /\ status' = IF Raise(s, e) = <<>> THEN e ELSE status

\* Context::handle_event entered for an event just read.
Dispatch(m, evt) ==
  LET id == Count("event") + 1 IN
  /\ stack' = Append(stack, Frame("handle_event", "start", evt, id, ""))
  /\ log' = log \o <<Polled(m), Entry("event", evt, id, 0)>>
  /\ status' = status

\* --------------------------------------------------------------- main_loop
\* Context::main_loop reading one message, and Script::run ending when it
\* returns: Ok after close and flush, Err at once.
MainLoop(m) ==
  /\ CanPoll(m)
  /\ Top(stack).fn = "main_loop"
  /\ ws' = WsAfter(m)
  /\ UNCHANGED <<on_init, on_execute>>
  /\ LET x == try_next_event(m) IN
     CASE x.r = "event" -> Dispatch(m, x.evt)
       [] x.r = "none" ->
            /\ stack' = <<>>
            /\ status' = "Ok"
            /\ log' = log \o <<Polled(m)>> \o
                 (IF WsAfter(m) = "open" THEN <<Entry("close", "", 0, 0)>> ELSE <<>>)
       [] x.r = "err" ->
            /\ Fail(<<>>, x.e)
            /\ log' = Append(log, Polled(m))
       [] OTHER ->
            /\ log' = Append(log, Polled(m))
            /\ UNCHANGED <<stack, status>>

\* -------------------------------------------------------- send_api_request
\* The caller of a settled request goes on: handle_event after
\* subscribe_run, or the callback with the Ok of its request.
Resume(s) ==
  IF Top(s).fn = "handle_event" THEN SetTop(s, [Top(s) EXCEPT !.pc = "on_init"])
  ELSE SetTop(s, [Top(s) EXCEPT !.last = "Ok"])

\* The loop of send_api_request with results matched to requests in the
\* order the requests were sent: an ApiResult is taken for the oldest
\* request still waiting, not for the call that read it.
AwaitResult_SettlesOldest(m) ==
  /\ CanPoll(m)
  /\ Top(stack).fn = "send_api_request"
  /\ ws' = WsAfter(m)
  /\ UNCHANGED <<on_init, on_execute>>
  /\ LET x == try_next_event_or_api_result(m)
         rq == stack[CHOOSE i \in Pending : \A j \in Pending : i <= j]
     IN
     CASE x.r = "event" -> Dispatch(m, x.evt)
       [] x.r = "result" ->
            LET v == into_result(x.res)
                ok == v.ok /\ from_value(ResultType(rq.api), v.value)
            IN
            /\ log' = log \o <<Polled(m), Entry("result", rq.api, rq.id,
                                                IF ok THEN 1 ELSE IF v.ok THEN 0 ELSE v.value.n)>>
            /\ IF ok
               THEN stack' = Resume(Pop(stack)) /\ status' = status
               ELSE Fail(Pop(stack), IF v.ok THEN "SerializeFailed" ELSE v.err)
       [] x.r = "none" ->
            /\ Fail(Pop(stack), "UnexpectedDisconnect")
            /\ log' = Append(log, Polled(m))
       [] x.r = "err" ->
            /\ Fail(Pop(stack), x.e)
            /\ log' = Append(log, Polled(m))
       [] OTHER ->
            /\ log' = Append(log, Polled(m))
            /\ UNCHANGED <<stack, status>>

\* Context::send_api_request, the loop after the request was sent.
AwaitResult(m) ==
  /\ CanPoll(m)
  /\ Top(stack).fn = "send_api_request"
  /\ ws' = WsAfter(m)
  /\ UNCHANGED <<on_init, on_execute>>
  /\ LET x == try_next_event_or_api_result(m)
         rq == Top(stack)
     IN
     CASE x.r = "event" -> Dispatch(m, x.evt)
       [] x.r = "result" ->
            LET v == into_result(x.res)
                ok == v.ok /\ from_value(ResultType(rq.api), v.value)
            IN
            /\ log' = log \o <<Polled(m), Entry("result", rq.api, rq.id,
                                                IF ok THEN 1 ELSE IF v.ok THEN 0 ELSE v.value.n)>>
            /\ IF ok
               THEN stack' = Resume(Pop(stack)) /\ status' = status
               ELSE Fail(Pop(stack), IF v.ok THEN "SerializeFailed" ELSE v.err)
       [] x.r = "none" ->
            /\ Fail(Pop(stack), "UnexpectedDisconnect")
            /\ log' = Append(log, Polled(m))
       [] x.r = "err" ->
            /\ Fail(Pop(stack), x.e)
            /\ log' = Append(log, Polled(m))
       [] OTHER ->
            /\ log' = Append(log, Polled(m))
            /\ UNCHANGED <<stack, status>>

\* Context::send_api_request up to its loop: the request is sent (or the
\* send fails) on behalf of the activation on top of s.
SendRequest(s, api) ==
  LET rid == Count("request") + 1 IN
  IF SendOk
  THEN /\ stack' = Append(s, Frame("send_api_request", "read", "", rid, api))
       /\ log' = Append(log, Entry("request", api, rid, Top(s).id))
       /\ status' = status
  ELSE /\ Fail(s, "WebsocketError")
       /\ log' = log

\* Context::send_event_response by the handle_event on top of s, which then
\* returns `after` ("Ok" or an Error) to its caller.
Respond(s, l, kind, v, after) ==
  IF SendOk
  THEN /\ log' = Append(l, Entry("response", kind, Top(s).id, v))
       /\ IF after = "Ok"
          THEN stack' = Pop(s) /\ status' = status
          ELSE Fail(Pop(s), after)
  ELSE /\ Fail(Pop(s), "WebsocketError")
       /\ log' = l

\* ------------------------------------------------------------ handle_event
Handling(evts, pc) ==
  /\ status = "running"
  /\ Top(stack).fn = "handle_event"
  /\ Top(stack).evt \in evts
  /\ Top(stack).pc = pc

\* The ScriptInitialize arm testing the wrong slot of the registry before
\* subscribe_run.
HandleScriptInitialize_TestsOnInit ==
  /\ Handling({"scriptInitialize"}, "start")
  /\ IF on_init
     THEN SendRequest(SetTop(stack, [Top(stack) EXCEPT !.pc = "subscribe_run"]),
                      "subscribe")
     ELSE /\ stack' = SetTop(stack, [Top(stack) EXCEPT !.pc = "on_init"])
          /\ UNCHANGED <<status, log>>
  /\ UNCHANGED <<on_init, on_execute, ws>>

\* Event::ScriptInitialize, first statement: subscribe_run when an execute
\* callback is registered.
HandleScriptInitialize ==
  /\ Handling({"scriptInitialize"}, "start")
  /\ IF on_execute
     THEN SendRequest(SetTop(stack, [Top(stack) EXCEPT !.pc = "subscribe_run"]),
                      "subscribe")
     ELSE /\ stack' = SetTop(stack, [Top(stack) EXCEPT !.pc = "on_init"])
          /\ UNCHANGED <<status, log>>
  /\ UNCHANGED <<on_init, on_execute, ws>>

\* The second statement of Event::ScriptInitialize reading the init slot
\* without taking it: the callback stays registered.
TakeOnInit_KeepsOnInit ==
  /\ Handling({"scriptInitialize"}, "on_init")
  /\ on_init' = on_init
  /\ IF on_init
     THEN /\ stack' = Append(SetTop(stack, [Top(stack) EXCEPT !.pc = "callback"]),
                             Frame("on_init", "run", "scriptInitialize", Top(stack).id, ""))
          /\ log' = Append(log, Entry("call", "on_init", Top(stack).id, 0))
          /\ status' = status
     ELSE Respond(stack, log, "Ok", 0, "Ok")
  /\ UNCHANGED <<on_execute, ws>>

\* Event::ScriptInitialize, second statement: on_init.take(), the call of
\* the callback, or the empty response when there is none.
TakeOnInit ==
  /\ Handling({"scriptInitialize"}, "on_init")
  /\ on_init' = FALSE
  /\ IF on_init
     THEN /\ stack' = Append(SetTop(stack, [Top(stack) EXCEPT !.pc = "callback"]),
                             Frame("on_init", "run", "scriptInitialize", Top(stack).id, ""))
          /\ log' = Append(log, Entry("call", "on_init", Top(stack).id, 0))
          /\ status' = status
     ELSE Respond(stack, log, "Ok", 0, "Ok")
  /\ UNCHANGED <<on_execute, ws>>

\* Event::ScriptRun: the call of the execute callback, or the result 0 when
\* there is none.
HandleScriptRun ==
  /\ Handling({"scriptRun"}, "start")
  /\ IF on_execute
     THEN /\ stack' = Append(SetTop(stack, [Top(stack) EXCEPT !.pc = "callback"]),
                             Frame("on_execute", "run", "scriptRun", Top(stack).id, ""))
          /\ log' = Append(log, Entry("call", "on_execute", Top(stack).id, 0))
          /\ status' = status
     ELSE Respond(stack, log, "ScriptRun", 0, "Ok")
  /\ UNCHANGED <<on_init, on_execute, ws>>

\* The arms of InterfaceChange, BlockUpdate and Alarm answering like the
\* ScriptInitialize arm without a callback: the empty response is sent.
HandleUnhandled_Responds ==
  /\ Handling({"interfaceChange", "blockUpdate", "alarm"}, "start")
  /\ Respond(stack, log, "Ok", 0, "Ok")
  /\ UNCHANGED <<on_init, on_execute, ws>>

\* Event::InterfaceChange, BlockUpdate, Alarm: the empty arms.
HandleUnhandled ==
  /\ Handling({"interfaceChange", "blockUpdate", "alarm"}, "start")
  /\ stack' = Pop(stack)
  /\ UNCHANGED <<on_init, on_execute, ws, status, log>>

\* --------------------------------------------------------------- callbacks
\* A callback is the user's code: at each step it issues a request through
\* its Context, or returns Ok or an ErrorCode, whatever its last request
\* returned.
InCallback(fn) ==
  /\ status = "running"
  /\ Top(stack).fn = fn

\* ctx.info(..) / ctx.query_gametime() in a callback (examples/hello.rs).
CallbackRequest(api) ==
  /\ \/ InCallback("on_init")
     \/ InCallback("on_execute")
  /\ Top(stack).n < MaxReq
  /\ SendRequest(SetTop(stack, [Top(stack) EXCEPT !.n = @ + 1]), api)
  /\ UNCHANGED <<on_init, on_execute, ws>>

\* The init callback returns: handle_event sends the empty response, or the
\* ErrorCode and then fails with InitializeFailed.
OnInitReturn(ok, code) ==
  /\ InCallback("on_init")
  /\ IF ok
     THEN Respond(Pop(stack), Append(log, Entry("return_ok", "on_init", Top(stack).id, 0)),
                  "Ok", 0, "Ok")
     ELSE Respond(Pop(stack), Append(log, Entry("return_err", "on_init", Top(stack).id, code)),
                  "Err", code, "InitializeFailed")
  /\ UNCHANGED <<on_init, on_execute, ws>>

\* The ScriptRun arm ending like the ScriptInitialize arm: after the Err
\* response handle_event returns an Err instead of Ok(()).
OnExecuteReturn_FailsSession(ok, v) ==
  /\ InCallback("on_execute")
  /\ IF ok
     THEN Respond(Pop(stack), Append(log, Entry("return_ok", "on_execute", Top(stack).id, v)),
                  "ScriptRun", v, "Ok")
     ELSE Respond(Pop(stack), Append(log, Entry("return_err", "on_execute", Top(stack).id, v)),
                  "Err", v, "InitializeFailed")
  /\ UNCHANGED <<on_init, on_execute, ws>>

\* The ScriptRun arm losing the callback's result: the success response
\* carries the result of the arm without a callback.
OnExecuteReturn_DropsResult(ok, v) ==
  /\ InCallback("on_execute")
  /\ IF ok
     THEN Respond(Pop(stack), Append(log, Entry("return_ok", "on_execute", Top(stack).id, v)),
                  "ScriptRun", 0, "Ok")
     ELSE Respond(Pop(stack), Append(log, Entry("return_err", "on_execute", Top(stack).id, v)),
                  "Err", v, "Ok")
  /\ UNCHANGED <<on_init, on_execute, ws>>

\* The execute callback returns: handle_event sends the result, or the
\* ErrorCode, and returns Ok.
OnExecuteReturn(ok, v) ==
  /\ InCallback("on_execute")
  /\ IF ok
     THEN Respond(Pop(stack), Append(log, Entry("return_ok", "on_execute", Top(stack).id, v)),
                  "ScriptRun", v, "Ok")
     ELSE Respond(Pop(stack), Append(log, Entry("return_err", "on_execute", Top(stack).id, v)),
                  "Err", v, "Ok")
  /\ UNCHANGED <<on_init, on_execute, ws>>

Next ==
  \/ \E m \in Polls : MainLoop(m)
  \/ \E m \in Polls : AwaitResult(m)
  \/ HandleScriptInitialize
  \/ TakeOnInit
  \/ HandleScriptRun
  \/ HandleUnhandled
  \/ \E api \in CallbackApis : CallbackRequest(api)
  \/ OnInitReturn(TRUE, 0)
  \/ \E c \in CallbackCodes : OnInitReturn(FALSE, c)
  \/ \E v \in CallbackResults : OnExecuteReturn(TRUE, v)
  \/ \E c \in CallbackCodes : OnExecuteReturn(FALSE, c)

Spec == Init /\ [][Next]_vars

\* ------------------------------------------------------------- well-formed
TypeOK ==
  /\ on_init \in BOOLEAN
  /\ on_execute \in BOOLEAN
  /\ ws \in {"open", "closed"}
  /\ status \in {"running", "Ok"} \cup Error
  /\ (status = "running") = (stack # <<>>)
  /\ stack # <<>> => stack[1].fn = "main_loop"

\* ------------------------------------------------------- reading the log
Idx == 1 .. Len(log)
Is(i, t, a) == log[i].t = t /\ log[i].a = a

\* The kind of event k, and the responses sent for it.
EvtKind(k) == log[CHOOSE i \in Idx : log[i].t = "event" /\ log[i].id = k].a
Responses(k) == {i \in Idx : log[i].t = "response" /\ log[i].id = k}

\* handle_event has returned Ok for event k (its activation is gone and the
\* session runs on).
Handled(k) ==
  /\ status = "running"
  /\ \A i \in 1 .. Len(stack) : stack[i].id = k => stack[i].fn = "send_api_request"

\* The channel was closed or broken by a poll before log entry i.
ClosedBefore(i) ==
  \E j \in 1 .. i : log[j].t = "in" /\ log[j].a \in {"close", "eof", "fault"}

\* The init callback was registered when the session started.
HadOnInit == on_init \/ \E i \in Idx : Is(i, "call", "on_init")

\* ------------------------------------------------------------------ claims
\* C1: in every reachable state at most one ApiRequest has been sent and is
\* still awaiting its ApiResult.
C1_OneRequestInFlight == Cardinality(Pending) <= 1

\* C2: every event, of any of the five kinds, is answered by exactly one
\* EventResponse, sent before a later inbound frame is treated as an event:
\* never two responses, one response once its handling has returned, and a
\* response before the next event is dispatched.
C2_OneResponsePerEvent ==
  \A i \in Idx : log[i].t = "event" =>
    LET k == log[i].id IN
    /\ Cardinality(Responses(k)) <= 1
    /\ Handled(k) => Cardinality(Responses(k)) = 1
    /\ \A j \in Idx : (j > i /\ log[j].t = "event") =>
         \E r \in Responses(k) : r < j

\* C3: EventResponses are sent in the arrival order of their events.
C3_ResponsesInArrivalOrder ==
  \A i, j \in Idx :
    (i < j /\ log[i].t = "response" /\ log[j].t = "response") =>
      log[i].id < log[j].id

\* C4: the execute callback is invoked once per ScriptRun event, and two of
\* its invocations are never both started and unfinished.
C4_ExecuteNeverOverlaps ==
  /\ Cardinality({i \in 1 .. Len(stack) : stack[i].fn = "on_execute"}) <= 1
  /\ \A i, j \in Idx :
       (Is(i, "call", "on_execute") /\ Is(j, "call", "on_execute") /\ i # j) =>
         log[i].id # log[j].id
  /\ on_execute =>
       \A i \in Idx : (Is(i, "event", "scriptRun") /\ i < Len(log)) =>
         log[i + 1] = Entry("call", "on_execute", log[i].id, 0)

\* C5: with both callbacks registered, the init callback is invoked before
\* the first invocation of the execute callback; stated for the sessions
\* whose first event is ScriptInitialize.
C5_InitBeforeExecute ==
  (/\ on_execute
   /\ HadOnInit
   /\ \A i \in Idx : log[i].t = "event" /\ log[i].id = 1 =>
        log[i].a = "scriptInitialize") =>
    \A i \in Idx : Is(i, "call", "on_execute") =>
      \E j \in 1 .. i : Is(j, "call", "on_init")

\* The Subscribe(ScriptRun) requests sent by the handling of event k, and
\* whether that handling is past its first statement.
Subscribes(k) ==
  {r \in Idx : Is(r, "request", "subscribe") /\ log[r].v = k}
Started(k) ==
  \A i \in 1 .. Len(stack) :
    ~(stack[i].fn = "handle_event" /\ stack[i].id = k /\ stack[i].pc = "start")
\* The frames the client sent on behalf of event k.
SentFor(k) ==
  {i \in Idx : \/ log[i].t = "request" /\ log[i].v = k
               \/ log[i].t = "response" /\ log[i].id = k}
\* Request log[r] was settled by an ApiResult before log entry c.
SettledBefore(r, c) ==
  \E q \in Idx : r < q /\ q < c /\ log[q].t = "result" /\ log[q].id = log[r].id

\* C6: handling ScriptInitialize sends Subscribe(ScriptRun) if and only if
\* an execute callback is registered; its ApiResult is received before the
\* init callback is invoked and before the event's response is sent; with no
\* callback registered the one frame sent for the event is the empty
\* success response.
C6_SubscribeBeforeInit ==
  \A i \in Idx : Is(i, "event", "scriptInitialize") =>
    LET k == log[i].id IN
    /\ Cardinality(Subscribes(k)) = IF on_execute /\ Started(k) THEN 1 ELSE 0
    /\ on_execute =>
         \A c \in Idx :
           (\/ log[c] = Entry("call", "on_init", k, 0)
            \/ log[c].t = "response" /\ log[c].id = k) =>
             \E r \in Subscribes(k) : SettledBefore(r, c)
    /\ (~on_execute /\ ~HadOnInit) =>
         /\ \A f \in SentFor(k) : log[f] = Entry("response", "Ok", k, 0)
         /\ Cardinality(SentFor(k)) <= 1
         /\ Handled(k) => Cardinality(SentFor(k)) = 1

\* C6's case: a subscribe round trip, then the init callback, then the
\* empty response of the same ScriptInitialize event.
C6_Witness ==
  \E r, c, f \in Idx :
    /\ r < c /\ c < f
    /\ Is(r, "request", "subscribe")
    /\ SettledBefore(r, c)
    /\ log[c] = Entry("call", "on_init", log[r].v, 0)
    /\ log[f] = Entry("response", "Ok", log[r].v, 0)

\* C7: when the init callback returns an ErrorCode e (the channel being
\* open), the client sends one EventResponse carrying e, the session ends
\* with no other result than InitializeFailed, and after that response no
\* frame is sent, no frame is polled and no callback is invoked.
C7_InitFailureIsFatal ==
  \A i \in Idx : (Is(i, "return_err", "on_init") /\ ~ClosedBefore(i)) =>
    /\ log[i + 1] = Entry("response", "Err", log[i].id, log[i].v)
    /\ Responses(log[i].id) = {i + 1}
    /\ status \in {"running", "InitializeFailed"}
    /\ Len(log) = i + 1

\* C8: when the execute callback returns an ErrorCode for a ScriptRun event
\* (the channel being open), the client sends that code as the one response
\* of the event, the session runs on in the loop that dispatched the event,
\* and every later ScriptRun event is dispatched to the execute callback
\* and its result sent as the ScriptRun response.
C8_ExecuteFailureIsRecoverable ==
  \A i \in Idx : (Is(i, "return_err", "on_execute") /\ ~ClosedBefore(i)) =>
    /\ log[i + 1] = Entry("response", "Err", log[i].id, log[i].v)
    /\ Responses(log[i].id) = {i + 1}
    /\ Len(log) = i + 1 =>
         /\ status = "running"
         /\ Top(stack).fn \in {"main_loop", "send_api_request"}
    /\ \A j \in Idx : (j > i /\ Is(j, "event", "scriptRun")) =>
         /\ j < Len(log) => log[j + 1] = Entry("call", "on_execute", log[j].id, 0)
         /\ \A q \in Idx : (Is(q, "return_ok", "on_execute") /\ log[q].id = log[j].id
                            /\ ~ClosedBefore(q)) =>
              /\ log[q + 1] = Entry("response", "ScriptRun", log[j].id, log[q].v)
              /\ Responses(log[j].id) = {q + 1}

\* C8's case: an execute failure answered, then a later ScriptRun event
\* run by the callback and answered with its result.
C8_Witness ==
  \E i, j, q \in Idx :
    /\ i < j /\ j < q
    /\ Is(i, "return_err", "on_execute")
    /\ log[i + 1].t = "response"
    /\ Is(j, "event", "scriptRun")
    /\ log[q] = Entry("response", "ScriptRun", log[j].id, 1)

\* C9: an ApiResult frame polled while no request awaits a result ends the
\* session with UnexpectedApiResult: nothing is done after it, and it
\* settles no request.
C9_UnsolicitedResultIsFatal ==
  \A i \in Idx : (Is(i, "in", "result") /\ log[i].v = 0) =>
    /\ i = Len(log)
    /\ status = "UnexpectedApiResult"

\* C9's case: an ApiResult polled with no request pending, after an earlier
\* request of the session was settled.
C9_Witness ==
  \E i, q \in Idx :
    /\ q < i
    /\ log[q].t = "result"
    /\ Is(i, "in", "result")
    /\ log[i].v = 0

\* C10: a binary frame, or a text frame that is neither an Event nor an
\* ApiResult, ends the session with no other result than
\* InvalidServerMessage wherever it is polled; after it no frame is polled
\* or sent and no callback is invoked.
C10_InvalidFrameIsFatal ==
  \A i \in Idx : (log[i].t = "in" /\ log[i].a \in {"binary", "malformed"}) =>
    /\ i = Len(log)
    /\ status \in {"running", "InvalidServerMessage"}

\* C11: when a request call returns Ok, every event dispatched while it
\* awaited its result has been completely handled and its EventResponse
\* was sent before the ApiResult was taken.
C11_EventsAnsweredBeforeReturn ==
  \A r, q \in Idx :
    (/\ r < q
     /\ log[r].t = "request"
     /\ log[q].t = "result" /\ log[q].id = log[r].id /\ log[q].v = 1) =>
      \A j \in Idx : (r < j /\ j < q /\ log[j].t = "event") =>
        /\ \A i \in 1 .. Len(stack) :
             stack[i].fn = "handle_event" => stack[i].id # log[j].id
        /\ \E f \in Responses(log[j].id) : f < q

\* C12: whenever the session ends with a fatal error while the channel is
\* open, a close frame was sent before run returned the error.
C12_FatalErrorClosesChannel ==
  (status \in Error /\ ws = "open") => \E i \in Idx : log[i].t = "close"

\* C13: an interrupt that wins the race against a pending read, in the main
\* loop or in a request awaiting its result, ends the session at once:
\* run returns Ok after sending a close frame.
C13_InterruptEndsCleanly ==
  \A i \in Idx : Is(i, "in", "ctrl_c") =>
    /\ status = "Ok"
    /\ Len(log) = i + 1
    /\ log[i + 1].t = "close"

\* C14: when the ApiResult that settles a request carries an ErrorCode as
\* its payload, the request call fails with that ErrorCode, whatever the
\* kind of request; it never returns Ok.
C14_FailurePayloadFailsCall ==
  \A q \in Idx :
    (/\ log[q].t = "result"
     /\ Is(q - 1, "in", "result")
     /\ log[q - 1].id \in ErrorCode) => log[q].v = log[q - 1].id

\* ------------------------------------------------- clones of one Context
\* Context is Clone and its clones share the channel behind one mutex
\* (Arc<Mutex<..>>).  An execute callback that hands a clone to each of two
\* futures and runs them side by side has two request calls in progress at
\* once: here they are activations 4 and 5, above the callback's.
\* A holder is "idle" before its call, in Context::send waiting for the
\* mutex, in send_api_request waiting for the mutex to read, or "done".
\* n is its place in the queue of the mutex.
Holders == {4, 5}
Queued == {i \in Holders : stack[i].pc = "lock"}
Owner(i) == i \in Queued /\ \A j \in Queued : stack[i].n <= stack[j].n
Ticket == 1 + (CHOOSE n \in {stack[i].n : i \in Holders} :
                 \A i \in Holders : stack[i].n <= n)

\* What the host sends while the two calls are in progress: ApiResults,
\* one per request it has received, control frames, and the close.
ConcPolls ==
  {m \in Polls : /\ FrameName(m) \in {"result", "ping", "close", "eof"}
                 /\ FrameName(m) = "result" => Count("result") < Count("request")}

\* The execute callback of event 1 has just started its two futures.
ConcInit ==
  /\ stack = <<Frame("main_loop", "read", "", 0, ""),
               Frame("handle_event", "callback", "scriptRun", 1, ""),
               Frame("on_execute", "run", "scriptRun", 1, ""),
               Frame("holder", "idle", "scriptRun", 1, ""),
               Frame("holder", "idle", "scriptRun", 1, "")>>
  /\ on_init \in BOOLEAN
  /\ on_execute = TRUE
  /\ ws = "open"
  /\ status = "running"
  /\ log = <<Entry("in", "scriptRun", 0, 0), Entry("event", "scriptRun", 1, 0),
             Entry("call", "on_execute", 1, 0)>>

\* A holder calls a request: send_api_request enters Context::send and
\* asks for the mutex.
ConcCall(i, api) ==
  /\ i \in Holders
  /\ stack[i].fn = "holder" /\ stack[i].pc = "idle"
  /\ stack' = [stack EXCEPT ![i] = [@ EXCEPT !.fn = "send", !.pc = "lock",
                                             !.api = api, !.n = Ticket]]
  /\ UNCHANGED <<on_init, on_execute, ws, status, log>>

\* Context::send: the mutex is held for the one write; the holder then asks
\* for it again in try_next_message, behind whoever is queued.
ConcSend(i) ==
  LET rid == Count("request") + 1 IN
  /\ Owner(i) /\ stack[i].fn = "send"
  /\ IF SendOk
     THEN /\ stack' = [stack EXCEPT ![i] = [@ EXCEPT !.fn = "send_api_request",
                                                     !.id = rid, !.n = Ticket]]
          /\ log' = Append(log, Entry("request", stack[i].api, rid, 1))
     ELSE /\ stack' = [stack EXCEPT ![i] = [@ EXCEPT !.fn = "holder", !.pc = "done",
                                                     !.last = "WebsocketError"]]
          /\ log' = log
  /\ UNCHANGED <<on_init, on_execute, ws, status>>

\* The send_api_request loop of a holder: the mutex is held while the read
\* is pending and released with the message.
ConcRead(i, m) ==
  /\ Owner(i) /\ stack[i].fn = "send_api_request"
  /\ m \in ConcPolls
  /\ CanPoll(m)
  /\ ws' = WsAfter(m)
  /\ UNCHANGED <<on_init, on_execute, status>>
  /\ LET x == try_next_event_or_api_result(m)
         v == into_result(x.res)
         ok == v.ok /\ from_value(ResultType(stack[i].api), v.value)
         done(e) == [stack EXCEPT ![i] = [@ EXCEPT !.fn = "holder", !.pc = "done",
                                                   !.last = e]]
     IN
     CASE x.r = "result" ->
            /\ log' = log \o <<Polled(m), Entry("result", stack[i].api, stack[i].id,
                                                IF ok THEN 1 ELSE IF v.ok THEN 0 ELSE v.value.n)>>
            /\ stack' = done(IF ok THEN "Ok" ELSE IF v.ok THEN "SerializeFailed" ELSE v.err)
       [] x.r = "none" ->
            /\ log' = Append(log, Polled(m))
            /\ stack' = done("UnexpectedDisconnect")
       [] OTHER ->
            /\ log' = Append(log, Polled(m))
            /\ stack' = [stack EXCEPT ![i].n = Ticket]

ConcNext ==
  \/ \E i \in Holders, api \in CallbackApis : ConcCall(i, api)
  \/ \E i \in Holders : ConcSend(i)
  \/ \E i \in Holders, m \in Polls : ConcRead(i, m)

ConcSpec == ConcInit /\ [][ConcNext]_vars

\* C15: when two holders of clones of one Context issue requests side by
\* side, the second request frame is sent only after the ApiResult of the
\* first was received, and each call takes the ApiResult of its own request
\* (the host answers the requests in the order it received them).
C15_IssuanceSerialized ==
  /\ \A r1, r2 \in Idx :
       (r1 < r2 /\ log[r1].t = "request" /\ log[r2].t = "request") =>
         \E q \in Idx : r1 < q /\ q < r2 /\ log[q].t = "result"
  /\ \A q \in Idx : log[q].t = "result" =>
       log[q].id = Cardinality({p \in 1 .. q : log[p].t = "result"})

\* C16: over any number of ScriptInitialize events the init callback is
\* invoked at most once: the init slot only changes from present to absent,
\* only in the handling of ScriptInitialize, and no step changes the execute
\* slot.
C16_InitTakenOnce ==
  [][/\ on_execute' = on_execute
     /\ on_init' # on_init =>
          /\ on_init /\ ~on_init'
          /\ Handling({"scriptInitialize"}, "on_init")
     /\ Cardinality({i \in 1 .. Len(log') :
                       log'[i].t = "call" /\ log'[i].a = "on_init"}) <= 1]_vars

\* Two ScriptInitialize events were handled, the second one answered, and
\* the init callback was invoked.
C16_Witness ==
  \E i, j \in Idx :
    /\ i < j
    /\ Is(i, "event", "scriptInitialize") /\ Is(j, "event", "scriptInitialize")
    /\ Responses(log[j].id) # {}
    /\ \E c \in Idx : Is(c, "call", "on_init")

\* ------------------------------------------------------ the wire encodings
\* serde rename_all = "camelCase": the tag a variant is written with.
camelCase ==
  [v \in {"Subscribe", "ReadInterface", "WriteInterface", "QueryGametime",
          "ExecuteCommand", "Log", "ScriptInitialize", "ScriptRun",
          "InterfaceChange", "BlockUpdate", "Alarm"} |->
     CASE v = "Subscribe" -> "subscribe"
       [] v = "ReadInterface" -> "readInterface"
       [] v = "WriteInterface" -> "writeInterface"
       [] v = "QueryGametime" -> "queryGametime"
       [] v = "ExecuteCommand" -> "executeCommand"
       [] v = "Log" -> "log"
       [] v = "ScriptInitialize" -> "scriptInitialize"
       [] v = "ScriptRun" -> "scriptRun"
       [] v = "InterfaceChange" -> "interfaceChange"
       [] v = "BlockUpdate" -> "blockUpdate"
       [] v = "Alarm" -> "alarm"]

\* The variants of the two tagged enums.
ApiRequestVariants ==
  {"Subscribe", "ReadInterface", "WriteInterface", "QueryGametime",
   "ExecuteCommand", "Log"}
EventVariants ==
  {"ScriptInitialize", "ScriptRun", "InterfaceChange", "BlockUpdate", "Alarm"}

\* A value of a tagged enum, its fields taken as a whole, and its encoding:
\* the tag names the variant, the fields are written as they are.
Tagged(variant, fields) == [variant |-> variant, fields |-> fields]
ser_Tagged(x) == [tag |-> camelCase[x.variant], fields |-> x.fields]
de_Tagged(variants, j) ==
  IF \E v \in variants : camelCase[v] = j.tag
  THEN Tagged(CHOOSE v \in variants : camelCase[v] = j.tag, j.fields)
  ELSE Tagged("", FALSE)

\* enum EventResponse: Ok(Value), ScriptRun { result }, Err(ErrorCode).
\* n is the result of ScriptRun or the code of Err; json the Value of Ok.
EventResponse(variant, n, json) == [variant |-> variant, n |-> n, json |-> json]
EventResponse_empty == EventResponse("Ok", 0, JObject({}))

\* Serialize of the untagged enum: the content of the variant, no tag.
ser_EventResponse(x) ==
  CASE x.variant = "Ok" -> x.json
    [] x.variant = "ScriptRun" -> [JObject({"result"}) EXCEPT !.n = x.n]
    [] OTHER -> JNumber(x.n)

\* Deserialize of serde_json::Value: every JSON value is one.
FitsValue(j) == j.ty \in {"object", "number"}

\* Deserialize of the untagged enum: the variants are tried in the order
\* they are declared and the first that fits is taken.
de_EventResponse(j) ==
  IF FitsValue(j) THEN EventResponse("Ok", 0, j)
  ELSE IF j.ty = "object" /\ "result" \in j.keys
    THEN EventResponse("ScriptRun", j.n, Absent)
  ELSE IF j.ty = "number" /\ j.n \in ErrorCode
    THEN EventResponse("Err", j.n, Absent)
  ELSE EventResponse("", 0, Absent)

\* The EventResponse value the client sent as log entry i.
Sent(i) ==
  CASE log[i].a = "Ok" -> EventResponse_empty
    [] log[i].a = "ScriptRun" -> EventResponse("ScriptRun", log[i].v, Absent)
    [] OTHER -> EventResponse("Err", log[i].v, Absent)

\* C17: encoding and then decoding a value of ApiRequest, of Event or of
\* EventResponse gives back a value of the same variant with the same
\* fields; for EventResponse this is stated of every response the client
\* sends.
C17_RoundTrip ==
  /\ \A v \in ApiRequestVariants :
       de_Tagged(ApiRequestVariants, ser_Tagged(Tagged(v, TRUE))) = Tagged(v, TRUE)
  /\ \A v \in EventVariants :
       de_Tagged(EventVariants, ser_Tagged(Tagged(v, TRUE))) = Tagged(v, TRUE)
  /\ \A i \in Idx : log[i].t = "response" =>
       de_EventResponse(ser_EventResponse(Sent(i))) = Sent(i)

\* The execute callback was invoked for event k.
Executed(k) == \E c \in Idx : Is(c, "call", "on_execute") /\ log[c].id = k

\* C18: the success response to a ScriptRun event carries exactly the
\* integer the execute callback returned for that event, written as the
\* object {"result": n}, and carries 0 when no execute callback is
\* registered.
C18_ResponseCarriesResult ==
  /\ \A i \in Idx : (log[i].t = "response" /\ log[i].a = "ScriptRun") =>
       /\ EvtKind(log[i].id) = "scriptRun"
       /\ ser_EventResponse(Sent(i)) = [JObject({"result"}) EXCEPT !.n = log[i].v]
       /\ IF Executed(log[i].id)
          THEN log[i - 1] = Entry("return_ok", "on_execute", log[i].id, log[i].v)
          ELSE ~on_execute /\ log[i].v = 0
  /\ \A j \in Idx : (Is(j, "event", "scriptRun") /\ Started(log[j].id) /\ ~on_execute) =>
       /\ j < Len(log)
       /\ log[j + 1] = Entry("response", "ScriptRun", log[j].id, 0)

\* An execute callback returned 1 and the response carrying 1 was sent.
C18_Witness ==
  \E i \in Idx :
    /\ Is(i, "response", "ScriptRun") /\ log[i].v = 1
    /\ log[i - 1] = Entry("return_ok", "on_execute", log[i].id, 1)

\* C19: every ApiResult received while requests are awaiting a result
\* settles the innermost waiting call, which is the most recently sent of
\* the requests still waiting, and no request call is settled by more than
\* one ApiResult.
C19_ResultSettlesInnermost ==
  /\ \A q \in Idx : (Is(q, "in", "result") /\ log[q].v >= 1) =>
       q < Len(log) /\ log[q + 1].t = "result"
  /\ \A q \in Idx : log[q].t = "result" =>
       /\ Is(q - 1, "in", "result")
       /\ \E r \in 1 .. q : /\ log[r].t = "request"
                            /\ log[r].id = log[q].id /\ log[r].a = log[q].a
       /\ \A p \in Idx : (p # q /\ log[p].t = "result") => log[p].id # log[q].id
       /\ q = Len(log) =>
            /\ \A i \in Pending : stack[i].id < log[q].id
            /\ Cardinality(Pending) = log[q - 1].v - 1

\* An ApiResult arrived while two requests were awaiting one and settled
\* the later request.
C19_Witness ==
  \E q \in Idx :
    /\ log[q].t = "result" /\ log[q - 1].v = 2
    /\ \E r \in Idx : log[r].t = "request" /\ log[r].id < log[q].id

\* The three kinds of event whose arms are empty.
Unhandled == {"interfaceChange", "blockUpdate", "alarm"}

\* C20: handling an InterfaceChange, BlockUpdate or Alarm event sends no
\* frame, invokes no callback, leaves the callback registry and the
\* requests awaiting a result as they are, and leaves the session running;
\* such a frame is dispatched as an event, never refused as an invalid
\* server message.
C20_UnhandledEventsAreInert ==
  [][/\ Handling(Unhandled, "start") =>
          /\ log' = log
          /\ on_init' = on_init /\ on_execute' = on_execute
          /\ ws' = ws
          /\ status' = "running"
          /\ stack' = Pop(stack)
          /\ {stack'[i].id : i \in Pending'} = {stack[i].id : i \in Pending}
     /\ \A i \in 1 .. Len(log') :
          (log'[i].t = "in" /\ log'[i].a \in Unhandled) =>
            /\ i < Len(log')
            /\ log'[i + 1].t = "event" /\ log'[i + 1].a = log'[i].a
     /\ \A i \in 1 .. Len(log') :
          (log'[i].t = "event" /\ log'[i].a \in Unhandled) =>
            \A j \in 1 .. Len(log') :
              log'[j].t \in {"request", "response", "call"} =>
                log'[i].id # (IF log'[j].t = "request" THEN log'[j].v ELSE log'[j].id)]_vars

\* An event of one of the three kinds was handled while a request was
\* awaiting its result, and the session runs on.
C20_Witness ==
  \E i \in Idx :
    /\ log[i].t = "event" /\ log[i].a \in Unhandled
    /\ log[i - 1].v = 1
    /\ Handled(log[i].id)
    /\ \A k \in 1 .. Len(stack) : stack[k].id # log[i].id
====
